---- MODULE Spec2Model ----
(***************************************************************************)
(* git-cliff-core/src/template.rs: the Template wrapper around the Tera    *)
(* engine, its two filters (upper_first, commit_groups) and the two render *)
(* entry points with their error translation.                              *)
(*                                                                         *)
(* Strings that the code looks into (commit messages, versions) are        *)
(* sequences of one-character strings; names that the code only compares   *)
(* (group names, context keys, messages of errors) are TLA+ strings.       *)
(***************************************************************************)
EXTENDS Integers, Sequences, FiniteSets, TLC

VARIABLES
    fname,        \* filter spec: the filter being applied
    value,        \* filter spec: the filter's value (tera Value)
    args,         \* filter spec: the filter's named arguments
    fout,         \* filter spec: the filter's outcome
    tera,         \* the Template's only field: the engine instance
    built,        \* history: the engine instance as Template::new returned it
    newResult,    \* outcome of the last Template::new
    attempt,      \* history: the template text the last Template::new was given
    release,      \* the Release the callers pass by shared reference
    given,        \* history: the Release as the caller constructed it
    pc,           \* per caller: "idle", "ctx", "done", "panicked"
    call,         \* per caller: the operation and its groups argument
    ctx,          \* per caller: the TeraContext the call built
    result        \* per caller: the Result<String> the call returned

vars == <<fname, value, args, fout, tera, built, newResult, attempt, release, given,
          pc, call, ctx, result>>

filterVars == <<fname, value, args, fout>>
renderVars ==
    <<tera, built, newResult, attempt, release, given, pc, call, ctx, result>>

(***************************************************************************)
(* Bounds of the model.                                                    *)
(***************************************************************************)
MaxCommits == 4       \* commits in a filter value
MaxGroups == 3        \* names in a groups argument of the filter
MaxStrLen == 3        \* characters in an upper_first input
MaxRelCommits == 2    \* commits of a Release handed to render
MaxCallGroups == 2    \* names in the groups slice of render_with_groups
MaxLoopCommits == 3   \* commits a loop over upper_first runs through

(***************************************************************************)
(* Data: Option<String> groups, commits, tera values.                      *)
(***************************************************************************)
None == "<None>"
GroupNames == {"feat", "fix", "doc"}
RelGroupNames == {"feat", "fix"}

RECURSIVE SeqsUpTo(_, _)
SeqsUpTo(S, n) ==
    IF n = 0 THEN {<<>>}
    ELSE LET shorter == SeqsUpTo(S, n - 1)
         IN  shorter \cup {Append(s, x) : s \in {t \in shorter : Len(t) = n - 1}, x \in S}

Range(s) == {s[i] : i \in 1..Len(s)}

\* characters with their Unicode uppercase mappings (char::to_uppercase);
\* "sz" stands for U+00DF, whose uppercase form is the two characters SS
Chars == {"a", "f", "A", "1", "sz"}
to_uppercase(c) ==
    CASE c = "a" -> <<"A">>
      [] c = "f" -> <<"F">>
      [] c = "x" -> <<"X">>
      [] c = "d" -> <<"D">>
      [] c = "i" -> <<"I">>
      [] c = "sz" -> <<"S", "S">>
      [] OTHER -> <<c>>
AsciiUpper == {"A", "F", "S", "X", "D", "I"}

\* the message of the i-th commit of a value or release
MessageOf(i) ==
    CASE i = 1 -> <<"a", "d", "d">>
      [] i = 2 -> <<"F", "i", "x">>
      [] i = 3 -> <<"sz", "x">>
      [] OTHER -> <<"1", "a">>

IdOf(i) ==
    CASE i = 1 -> "A" [] i = 2 -> "B" [] i = 3 -> "C" [] i = 4 -> "D" [] OTHER -> "E"

\* Commit { id, message, group: Option<String> }; ids follow the input position
Commit(i, g) == [id |-> IdOf(i), group |-> g, message |-> MessageOf(i)]
CommitSeqs(names, n) ==
    {[i \in 1..Len(gs) |-> Commit(i, gs[i])] : gs \in SeqsUpTo(names \cup {None}, n)}

\* tera::Value, by shape
NoMap == <<>>
VNull == [t |-> "Null", s |-> <<>>, commits |-> <<>>, strs |-> <<>>, entries |-> NoMap]
VString(s) == [t |-> "String", s |-> s, commits |-> <<>>, strs |-> <<>>, entries |-> NoMap]
VCommits(cs) == [t |-> "Array", s |-> <<>>, commits |-> cs, strs |-> <<>>, entries |-> NoMap]
VStrings(ss) == [t |-> "Array", s |-> <<>>, commits |-> <<>>, strs |-> ss, entries |-> NoMap]
VMap(es) == [t |-> "Map", s |-> <<>>, commits |-> <<>>, strs |-> <<>>, entries |-> es]

\* HashMap<String, Value> and TeraContext: sets of key/value pairs
Has(m, k) == \E p \in m : p.k = k
Get(m, k) == (CHOOSE p \in m : p.k = k).v
Insert(m, k, v) == {p \in m : p.k # k} \cup {[k |-> k, v |-> v]}

\* TeraResult<Value> of a filter; a panic does not return
FOk(v) == [tag |-> "Ok", val |-> v, msg |-> ""]
FErr(m) == [tag |-> "Err", val |-> VNull, msg |-> m]
FPanic(m) == [tag |-> "Panic", val |-> VNull, msg |-> m]
FNone == [tag |-> "None", val |-> VNull, msg |-> ""]

(***************************************************************************)
(* tera::try_get_value!: the typed extraction at the top of each filter.   *)
(***************************************************************************)
IsVecCommit(v) == v.t = "Array" /\ v.strs = <<>>
IsVecString(v) == v.t = "Array" /\ v.commits = <<>>
IsString(v) == v.t = "String"

(***************************************************************************)
(* Template::upper_first_filter                                            *)
(***************************************************************************)
UpperFirstHeadOnly(s) ==
    IF s = <<>> THEN <<>> ELSE <<Head(to_uppercase(Head(s)))>> \o Tail(s)

\* lines 90-94: c.next(), f.to_uppercase().collect() + c.as_str()
upper_first_str(s) ==
    IF s = <<>> THEN <<>> ELSE to_uppercase(Head(s)) \o Tail(s)

upper_first_filter(v, a) ==
    IF ~IsString(v)
    THEN FErr("Filter upper_first_filter was called on an incorrect value")
    ELSE FOk(VString(upper_first_str(v.s)))

(***************************************************************************)
(* Template::commit_groups                                                 *)
(***************************************************************************)
LastPosition(groups, name) ==
    IF \E i \in 1..Len(groups) : groups[i] = name
    THEN CHOOSE i \in 1..Len(groups) :
            groups[i] = name /\ \A j \in (i + 1)..Len(groups) : groups[j] # name
    ELSE 0

\* Iterator::position: the first index, 0 for None
position(groups, name) ==
    IF \E i \in 1..Len(groups) : groups[i] = name
    THEN CHOOSE i \in 1..Len(groups) :
            groups[i] = name /\ \A j \in 1..(i - 1) : groups[j] # name
    ELSE 0

\* lines 54-58: the closure of any unwraps the group of every commit it is
\* called on, so a commit without a group panics unless groups is empty
RetainPanics(commits, groups) ==
    groups # <<>> /\ \E i \in 1..Len(commits) : commits[i].group = None

retain(commits, groups) ==
    SelectSeq(commits, LAMBDA c : \E i \in 1..Len(groups) : groups[i] = c.group)

\* itertools into_group_map_by: push each commit to the Vec of its key
PushFront(bucket, c) == <<c>> \o bucket

push(bucket, c) == Append(bucket, c)

RECURSIVE GroupFold(_, _)
GroupFold(commits, map) ==
    IF commits = <<>> THEN map
    ELSE LET c == Head(commits)
             k == c.group
         IN  GroupFold(Tail(commits),
                 IF k \in DOMAIN map
                 THEN [map EXCEPT ![k] = push(@, c)]
                 ELSE map @@ (k :> push(<<>>, c)))

into_group_map_by(commits) == GroupFold(commits, <<>>)

\* HashMap::into_iter: the pairs in the unspecified order iter gives the keys
into_iter(map, iter) ==
    LET keys == SelectSeq(iter, LAMBDA k : k \in DOMAIN map)
    IN  [i \in 1..Len(keys) |-> [group |-> keys[i], commits |-> map[keys[i]]]]

\* itertools sorted_by_key: a stable sort, here by insertion
RECURSIVE InsertByKey(_, _, _)
InsertByKey(sorted, e, groups) ==
    IF sorted = <<>> THEN <<e>>
    ELSE IF position(groups, Head(sorted).group) <= position(groups, e.group)
         THEN <<Head(sorted)>> \o InsertByKey(Tail(sorted), e, groups)
         ELSE <<e>> \o sorted

Unsorted(pairs, groups) == pairs

RECURSIVE sorted_by_key(_, _)
sorted_by_key(pairs, groups) ==
    IF pairs = <<>> THEN <<>>
    ELSE InsertByKey(sorted_by_key(SubSeq(pairs, 1, Len(pairs) - 1), groups),
                     pairs[Len(pairs)], groups)

\* IndexMap::insert: a new key goes last, a known key keeps its place
RECURSIVE IndexMapInsertAll(_, _)
IndexMapInsertAll(m, pairs) ==
    IF pairs = <<>> THEN m
    ELSE LET e == Head(pairs)
             m2 == IF \E i \in 1..Len(m) : m[i].group = e.group
                   THEN [i \in 1..Len(m) |-> IF m[i].group = e.group THEN e ELSE m[i]]
                   ELSE Append(m, e)
         IN  IndexMapInsertAll(m2, Tail(pairs))

\* tera::to_value of the IndexMap: a JSON object with the entries in map order
\* (serde_json keeps the insertion order of a map under its preserve_order
\* feature; without it the object is ordered by key)
to_value_map(m) == VMap(m)

commit_groups(v, a, iter) ==
    IF ~IsVecCommit(v)
    THEN FErr("Filter commit_groups was called on an incorrect value")
    ELSE IF ~Has(a, "groups")
    THEN FPanic("groups must be present in args")
    ELSE IF ~IsVecString(Get(a, "groups"))
    THEN FErr("Filter commit_groups received an incorrect type for arg groups")
    ELSE LET groups_ordered_filter == Get(a, "groups").strs
         IN  IF RetainPanics(v.commits, groups_ordered_filter)
             THEN FPanic("commit must have group")
             ELSE LET commits == retain(v.commits, groups_ordered_filter)
                      pairs == into_iter(into_group_map_by(commits), iter)
                  IN  IF \E i \in 1..Len(pairs) :
                             position(groups_ordered_filter, pairs[i].group) = 0
                      THEN FPanic("commits have already been filtered to specified groups")
                      ELSE FOk(to_value_map(IndexMapInsertAll(<<>>,
                                  sorted_by_key(pairs, groups_ordered_filter))))

(***************************************************************************)
(* The engine (tera), as far as Template drives it: errors with a cause    *)
(* chain, the compiled template, the filter namespace, evaluation.         *)
(***************************************************************************)
NoErr == [display |-> "", chain |-> <<>>]
ErrMsg(m) == [display |-> m, chain |-> <<>>]
\* tera::Error::chain(msg, cause)
ErrChain(m, cause) == [display |-> m, chain |-> <<cause.display>> \o cause.chain]
\* std::error::Error::source: Option, here a sequence of at most one error
source(e) ==
    IF e.chain = <<>> THEN <<>>
    ELSE <<[display |-> Head(e.chain), chain |-> Tail(e.chain)]>>
\* ToString::to_string of an error: its display text
to_string(e) == e.display

EOk(out) == [tag |-> "Ok", out |-> out, err |-> NoErr, msg |-> ""]
EErr(e) == [tag |-> "Err", out |-> <<>>, err |-> e, msg |-> ""]
EPanic(m) == [tag |-> "Panic", out |-> <<>>, err |-> NoErr, msg |-> m]

\* Template texts, by what they contain:
\*   text             literal text only
\*   for_upper        {% for commit in commits %}{{ commit.message | upper_first }}\n{% endfor %}
\*   for_groups       {% for group, commits in <value> | commit_groups(<groups>) %}
\*                    # {{ group }}\n{% for c in commits %}- {{ c.id }}\n{% endfor %}{% endfor %}
\*                    with <groups> a literal list, groups=commit_groups_filter, or no argument
\*   opaque           a template whose evaluation the engine fails without a cause
\*   unclosed         a loop tag that is never closed (parse error with a cause)
\*   extends_missing  {% extends "base" %} (engine error without a cause)
LiteralGroups == <<"fix", "feat">>
Tpl(kind, val, groups) == [kind |-> kind, value |-> val, groups |-> groups]
NoTemplate == Tpl("none", "", "")
RenderableTexts ==
    {Tpl("text", "", ""), Tpl("for_upper", "commits", ""), Tpl("opaque", "", ""),
     Tpl("for_groups", "commits", "literal"), Tpl("for_groups", "commits", "context"),
     Tpl("for_groups", "commits", "absent"), Tpl("for_groups", "version", "literal")}
TemplateTexts ==
    RenderableTexts \cup {Tpl("unclosed", "", ""), Tpl("extends_missing", "", "")}

NoTera == [template |-> NoTemplate, filters |-> {}]

\* Tera::add_raw_template("template", text)
add_raw_template(t, text) ==
    CASE text.kind = "unclosed" ->
           [tera |-> t,
            err |-> <<ErrChain("Failed to parse 'template'", ErrMsg("expected endfor"))>>]
      [] text.kind = "extends_missing" ->
           [tera |-> t, err |-> <<ErrMsg("Template 'template' is inheriting from 'base'")>>]
      [] OTHER -> [tera |-> [t EXCEPT !.template = text], err |-> <<>>]

\* Tera::register_filter
register_filter(t, name) == [t EXCEPT !.filters = @ \cup {name}]

\* the engine calling a filter of its namespace
FilterCall(t, name, v, a, iter) ==
    IF name \notin t.filters THEN FErr("Filter not found")
    ELSE IF name = "upper_first" THEN upper_first_filter(v, a)
    ELSE commit_groups(v, a, iter)

RenderFailed(cause) == EErr(ErrChain("Failed to render 'template'", cause))

\* {% for commit in commits %}{{ commit.message | upper_first }}\n{% endfor %}
RECURSIVE EvalForUpper(_, _, _)
EvalForUpper(t, commits, out) ==
    IF commits = <<>> THEN EOk(out)
    ELSE LET r == FilterCall(t, "upper_first", VString(Head(commits).message), {}, <<>>)
         IN  IF r.tag = "Ok"
             THEN EvalForUpper(t, Tail(commits), out \o r.val.s \o <<"\n">>)
             ELSE RenderFailed(ErrMsg(r.msg))

RECURSIVE CommitLines(_)
CommitLines(commits) ==
    IF commits = <<>> THEN <<>>
    ELSE <<"-", Head(commits).id, "\n">> \o CommitLines(Tail(commits))

RECURSIVE GroupLines(_)
GroupLines(entries) ==
    IF entries = <<>> THEN <<>>
    ELSE <<"#", Head(entries).group, "\n">> \o CommitLines(Head(entries).commits)
         \o GroupLines(Tail(entries))

\* the for_groups template: the value and the arguments are evaluated, then
\* the filter is called, then the loop runs over the mapping it returned
EvalForGroups(t, c, iter) ==
    LET text == t.template IN
    IF ~Has(c, text.value)
    THEN RenderFailed(ErrMsg("Variable not found in context"))
    ELSE IF text.groups = "context" /\ ~Has(c, "commit_groups_filter")
    THEN RenderFailed(ErrMsg("Variable commit_groups_filter not found in context"))
    ELSE LET a == CASE text.groups = "literal" ->
                        {[k |-> "groups", v |-> VStrings(LiteralGroups)]}
                    [] text.groups = "context" ->
                        {[k |-> "groups", v |-> Get(c, "commit_groups_filter")]}
                    [] OTHER -> {}
             r == FilterCall(t, "commit_groups", Get(c, text.value), a, iter)
         IN  CASE r.tag = "Ok" -> EOk(GroupLines(r.val.entries))
               [] r.tag = "Panic" -> EPanic(r.msg)
               [] OTHER -> RenderFailed(ErrMsg(r.msg))

\* Tera::render("template", &context)
tera_render(t, c, iter) ==
    CASE t.template.kind = "text" -> EOk(<<"#", "#", "\n">>)
      [] t.template.kind = "for_upper" ->
           IF Get(c, "commits").t = "Array"
           THEN EvalForUpper(t, Get(c, "commits").commits, <<>>)
           ELSE RenderFailed(ErrMsg("Tried to iterate on a non-array"))
      [] t.template.kind = "for_groups" -> EvalForGroups(t, c, iter)
      [] OTHER -> EErr(ErrMsg("engine failure"))

(***************************************************************************)
(* Release, TeraContext::from_serialize, crate::error::Result<String>.     *)
(***************************************************************************)
Version10 == <<"1", ".", "0">>
Releases ==
    {[version |-> v, commits |-> cs] :
        v \in {<<>>, <<Version10>>}, cs \in CommitSeqs(RelGroupNames, MaxRelCommits)}
NoRelease == [version |-> <<>>, commits |-> <<>>]

from_serialize(r) ==
    {[k |-> "version", v |-> IF r.version = <<>> THEN VNull ELSE VString(r.version[1])],
     [k |-> "commits", v |-> VCommits(r.commits)],
     [k |-> "commit_id", v |-> VNull],
     [k |-> "previous", v |-> VNull]}

ROk(out) == [tag |-> "Ok", out |-> out, msg |-> "", err |-> NoErr]
RErr(kind, m) == [tag |-> kind, out |-> <<>>, msg |-> m, err |-> NoErr]
RGeneric(e) == [tag |-> "TemplateError", out |-> <<>>, msg |-> "", err |-> e]
RPanic(m) == [tag |-> "Panic", out |-> <<>>, msg |-> m, err |-> NoErr]
RNone == [tag |-> "None", out |-> <<>>, msg |-> "", err |-> NoErr]

(***************************************************************************)
(* Template::new, Template::render, Template::render_with_groups           *)
(***************************************************************************)
\* lines 26-38
new(text) ==
    LET p == add_raw_template(NoTera, text) IN
    IF p.err # <<>>
    THEN [tera |-> NoTera,
          res |-> IF source(p.err[1]) # <<>>
                  THEN RErr("TemplateParseError", to_string(source(p.err[1])[1]))
                  ELSE RGeneric(p.err[1])]
    ELSE [tera |-> register_filter(register_filter(p.tera, "upper_first"), "commit_groups"),
          res |-> ROk(<<>>)]

\* line 100
render_context(r) == from_serialize(r)

ContextWithGroupsAsCommits(r, groups) ==
    Insert(from_serialize(r), "commits", VStrings(groups))

ContextWithoutGroups(r, groups) == from_serialize(r)

\* lines 119-120
render_with_groups_context(r, groups) ==
    Insert(from_serialize(r), "commit_groups_filter", VStrings(groups))

RenderResultAlwaysGeneric(er) ==
    IF er.tag = "Ok" THEN ROk(er.out) ELSE RGeneric(er.err)

\* lines 101-110
render_result(er) ==
    IF er.tag = "Ok" THEN ROk(er.out)
    ELSE IF source(er.err) # <<>>
         THEN RErr("TemplateRenderError", to_string(source(er.err)[1]))
         ELSE RGeneric(er.err)

\* lines 121-130
render_with_groups_result(er) ==
    IF er.tag = "Ok" THEN ROk(er.out)
    ELSE IF source(er.err) # <<>>
         THEN RErr("TemplateRenderError", to_string(source(er.err)[1]))
         ELSE RGeneric(er.err)

DropFilters(t) == [t EXCEPT !.filters = {}]

\* render and render_with_groups take &self: the engine instance after a call
self_after_render(t) == t

\* render and render_with_groups take &Release: the release after a call
release_after_render(r) == r

(***************************************************************************)
(* The filters on their own: Init draws a filter and its inputs, the       *)
(* actions apply it (upper_first also through the loop of the test's       *)
(* template).                                                              *)
(***************************************************************************)
Perms(S) == {p \in SeqsUpTo(S, Cardinality(S)) : Len(p) = Cardinality(S) /\ Range(p) = S}
IterOrders == Perms(GroupNames)
RelIterOrders == Perms(RelGroupNames)

FilterValues ==
    {VCommits(cs) : cs \in CommitSeqs(GroupNames, MaxCommits)}
    \cup {VNull, VString(Version10)}
FilterArgs ==
    {{[k |-> "groups", v |-> VStrings(gs)]} : gs \in SeqsUpTo(GroupNames, MaxGroups)}
    \cup {{}, {[k |-> "groups", v |-> VString(Version10)]}}
UpperFirstValues ==
    {VString(s) : s \in SeqsUpTo(Chars, MaxStrLen)} \cup {VNull, VCommits(<<>>)}
LoopMessages == {<<>>} \cup {MessageOf(i) : i \in 1..4}
LoopValues ==
    {VCommits([i \in 1..Len(ms) |-> [id |-> IdOf(i), group |-> None, message |-> ms[i]]]) :
        ms \in SeqsUpTo(LoopMessages, MaxLoopCommits)}

NoCall == [op |-> "none", groups |-> <<>>]
Callers == {1, 2}

RenderIdle ==
    /\ tera = NoTera
    /\ built = NoTera
    /\ newResult = RNone
    /\ attempt = NoTemplate
    /\ release = NoRelease
    /\ given = NoRelease
    /\ pc = [c \in Callers |-> "idle"]
    /\ call = [c \in Callers |-> NoCall]
    /\ ctx = [c \in Callers |-> {}]
    /\ result = [c \in Callers |-> RNone]

FilterInit ==
    /\ RenderIdle
    /\ fout = FNone
    /\ \/ fname = "commit_groups" /\ value \in FilterValues /\ args \in FilterArgs
       \/ fname = "upper_first" /\ value \in UpperFirstValues /\ args = {}
       \/ fname = "for_upper" /\ value \in LoopValues /\ args = {}

ApplyCommitGroups ==
    /\ fname = "commit_groups"
    /\ fout.tag = "None"
    /\ \E iter \in IterOrders : fout' = commit_groups(value, args, iter)
    /\ UNCHANGED <<fname, value, args, renderVars>>

ApplyUpperFirst ==
    /\ fname = "upper_first"
    /\ fout.tag = "None"
    /\ fout' = upper_first_filter(value, args)
    /\ UNCHANGED <<fname, value, args, renderVars>>

LoopTera == new(Tpl("for_upper", "commits", "")).tera

ApplyForUpper ==
    /\ fname = "for_upper"
    /\ fout.tag = "None"
    /\ fout' = tera_render(LoopTera, {[k |-> "commits", v |-> value]}, <<>>)
    /\ UNCHANGED <<fname, value, args, renderVars>>

FilterNext == ApplyCommitGroups \/ ApplyUpperFirst \/ ApplyForUpper

SpecFilter == FilterInit /\ [][FilterNext]_vars

(***************************************************************************)
(* The Template: construction, then render calls of two callers that share *)
(* the Template and the Release by reference.  A call builds its context   *)
(* and then evaluates; calls of different callers interleave.              *)
(***************************************************************************)
Init ==
    /\ fname = "none"
    /\ value = VNull
    /\ args = {}
    /\ fout = FNone
    /\ tera = NoTera
    /\ built = NoTera
    /\ newResult = RNone
    /\ attempt = NoTemplate
    /\ release \in Releases
    /\ given = release
    /\ pc = [c \in Callers |-> "idle"]
    /\ call = [c \in Callers |-> NoCall]
    /\ ctx = [c \in Callers |-> {}]
    /\ result = [c \in Callers |-> RNone]

\* Template::new(template); a failed construction may be tried again
New(text) ==
    /\ newResult.tag # "Ok"
    /\ LET r == new(text)
       IN  /\ tera' = r.tera
           /\ built' = r.tera
           /\ newResult' = r.res
    /\ attempt' = text
    /\ UNCHANGED <<filterVars, release, given, pc, call, ctx, result>>

CanCall(c) == newResult.tag = "Ok" /\ pc[c] \in {"idle", "done"}

\* render, line 100
RenderContext(c) ==
    /\ CanCall(c)
    /\ pc' = [pc EXCEPT ![c] = "ctx"]
    /\ call' = [call EXCEPT ![c] = [op |-> "render", groups |-> <<>>]]
    /\ ctx' = [ctx EXCEPT ![c] = render_context(release)]
    /\ result' = [result EXCEPT ![c] = RNone]
    /\ UNCHANGED <<filterVars, tera, built, newResult, attempt, release, given>>

\* render_with_groups, lines 119-120
RenderWithGroupsContext(c, groups) ==
    /\ CanCall(c)
    /\ pc' = [pc EXCEPT ![c] = "ctx"]
    /\ call' = [call EXCEPT ![c] = [op |-> "render_with_groups", groups |-> groups]]
    /\ ctx' = [ctx EXCEPT ![c] = render_with_groups_context(release, groups)]
    /\ result' = [result EXCEPT ![c] = RNone]
    /\ UNCHANGED <<filterVars, tera, built, newResult, attempt, release, given>>

\* the evaluation and the translation of its outcome; a panic of a filter
\* unwinds through the call, which then never returns
Evaluate(c, er, translated) ==
    /\ pc[c] = "ctx"
    /\ IF er.tag = "Panic"
       THEN /\ pc' = [pc EXCEPT ![c] = "panicked"]
            /\ result' = [result EXCEPT ![c] = RPanic(er.msg)]
       ELSE /\ pc' = [pc EXCEPT ![c] = "done"]
            /\ result' = [result EXCEPT ![c] = translated]
    /\ tera' = self_after_render(tera)
    /\ release' = release_after_render(release)
    /\ UNCHANGED <<filterVars, built, newResult, attempt, given, call, ctx>>

\* render, lines 101-110
RenderEvaluate(c, iter) ==
    /\ call[c].op = "render"
    /\ LET er == tera_render(tera, ctx[c], iter)
       IN  Evaluate(c, er, render_result(er))

\* render_with_groups, lines 121-130
RenderWithGroupsEvaluate(c, iter) ==
    /\ call[c].op = "render_with_groups"
    /\ LET er == tera_render(tera, ctx[c], iter)
       IN  Evaluate(c, er, render_with_groups_result(er))

CallGroups == SeqsUpTo(RelGroupNames, MaxCallGroups)

Next ==
    \/ \E text \in TemplateTexts : New(text)
    \/ \E c \in Callers : RenderContext(c)
    \/ \E c \in Callers, groups \in CallGroups : RenderWithGroupsContext(c, groups)
    \/ \E c \in Callers, iter \in RelIterOrders : RenderEvaluate(c, iter)
    \/ \E c \in Callers, iter \in RelIterOrders : RenderWithGroupsEvaluate(c, iter)

Spec == Init /\ [][Next]_vars

(***************************************************************************)
(* Properties of the filters (checked under SpecFilter).                   *)
(***************************************************************************)
GroupsArg == IF Has(args, "groups") THEN Get(args, "groups").strs ELSE <<>>
Emitted == fname = "commit_groups" /\ fout.tag = "Ok"
Keys == [i \in 1..Len(fout.val.entries) |-> fout.val.entries[i].group]
AllCarryGroup(commits) == \A i \in 1..Len(commits) : commits[i].group # None
ValidCommitGroupsCall ==
    /\ fname = "commit_groups"
    /\ fout.tag # "None"
    /\ IsVecCommit(value)
    /\ Has(args, "groups")
    /\ IsVecString(Get(args, "groups"))

\* the least index at which g occurs in groups
FirstIndex(groups, g) ==
    CHOOSE i \in 1..Len(groups) :
        groups[i] = g /\ \A j \in 1..Len(groups) : groups[j] = g => i <= j

\* C1: when every commit carries a group, the filter emits a mapping, and the
\* groups of an emitted mapping stand in ascending order of their index in the
\* groups argument, whatever the order of the commits.
C1_GroupOrderFollowsGroupsArg ==
    /\ (ValidCommitGroupsCall /\ AllCarryGroup(value.commits)) => Emitted
    /\ Emitted =>
         /\ \A i \in 1..Len(Keys) : Keys[i] \in Range(GroupsArg)
         /\ \A i \in 1..(Len(Keys) - 1) :
                FirstIndex(GroupsArg, Keys[i]) < FirstIndex(GroupsArg, Keys[i + 1])

\* groups [feat, fix] with commits [fix A, feat B, fix C, feat D]
C1_Witness ==
    /\ fname = "commit_groups"
    /\ GroupsArg = <<"feat", "fix">>
    /\ value = VCommits(<<Commit(1, "fix"), Commit(2, "feat"),
                          Commit(3, "fix"), Commit(4, "feat")>>)
    /\ fout.tag = "Ok"
    /\ fout.val.entries =
         <<[group |-> "feat", commits |-> <<Commit(2, "feat"), Commit(4, "feat")>>],
           [group |-> "fix", commits |-> <<Commit(1, "fix"), Commit(3, "fix")>>]>>

\* C2: the bucket emitted for a group is the subsequence of the input commits
\* of that group, in input order; every commit of a listed group is in the
\* bucket of its group and a commit of an unlisted group is in no bucket.
C2_StablePartition ==
    Emitted =>
        LET es == fout.val.entries
            input == value.commits
        IN  /\ \A i \in 1..Len(es) :
                  es[i].commits = SelectSeq(input, LAMBDA c : c.group = es[i].group)
            /\ \A i, j \in 1..Len(es) : es[i].group = es[j].group => i = j
            /\ \A n \in 1..Len(input) :
                  IF input[n].group \in Range(GroupsArg)
                  THEN \E i \in 1..Len(es) : es[i].group = input[n].group
                  ELSE \A i \in 1..Len(es) : input[n] \notin Range(es[i].commits)

\* commits [fix A, doc B, feat C, fix D] with groups [feat, fix]
C2_Witness ==
    /\ fname = "commit_groups"
    /\ GroupsArg = <<"feat", "fix">>
    /\ value = VCommits(<<Commit(1, "fix"), Commit(2, "doc"),
                          Commit(3, "feat"), Commit(4, "fix")>>)
    /\ fout.tag = "Ok"
    /\ Len(fout.val.entries) = 2
    /\ fout.val.entries[2].commits = <<Commit(1, "fix"), Commit(4, "fix")>>

\* C10: the keys of the emitted mapping are the names that are both listed in
\* groups and carried by a commit, each once, none with an empty bucket, and a
\* name listed several times stands where its first occurrence puts it.
C10_KeysAreListedAndCarried ==
    Emitted =>
        LET es == fout.val.entries
            carried == {value.commits[n].group : n \in 1..Len(value.commits)}
        IN  /\ Range(Keys) = Range(GroupsArg) \cap carried
            /\ Cardinality(Range(Keys)) = Len(Keys)
            /\ \A i \in 1..Len(es) : es[i].commits # <<>>
            /\ value.commits = <<>> => es = <<>>
            /\ \A i, j \in 1..Len(Keys) :
                  i < j => FirstIndex(GroupsArg, Keys[i]) < FirstIndex(GroupsArg, Keys[j])

\* groups [fix, feat, fix] and a listed group no commit carries
C10_Witness ==
    /\ fname = "commit_groups"
    /\ GroupsArg = <<"fix", "feat", "fix">>
    /\ value = VCommits(<<Commit(1, "feat"), Commit(2, "fix")>>)
    /\ fout.tag = "Ok"
    /\ Keys = <<"fix", "feat">>

\* what the loop of the test's template prints for the messages, in order
RECURSIVE UpperedLines(_)
UpperedLines(commits) ==
    IF commits = <<>> THEN <<>>
    ELSE LET m == Head(commits).message
         IN  (IF m = <<>> THEN <<>> ELSE to_uppercase(m[1]) \o SubSeq(m, 2, Len(m)))
             \o <<"\n">> \o UpperedLines(Tail(commits))

\* C6: upper_first returns the whole uppercase form of the first character
\* followed by the rest unchanged, the empty string for the empty string; it
\* leaves a string that starts with an uppercase ASCII letter as it is, also
\* when applied twice; a loop over commits prints the messages in input order.
C6_UpperFirst ==
    /\ (fname = "upper_first" /\ fout.tag # "None" /\ IsString(value)) =>
         LET s == value.s
             r == fout.val.s
             up == IF s = <<>> THEN <<>> ELSE to_uppercase(s[1])
         IN  /\ fout.tag = "Ok"
             /\ fout.val.t = "String"
             /\ s = <<>> => r = <<>>
             /\ s # <<>> =>
                  /\ Len(r) = Len(up) + Len(s) - 1
                  /\ SubSeq(r, 1, Len(up)) = up
                  /\ SubSeq(r, Len(up) + 1, Len(r)) = SubSeq(s, 2, Len(s))
             /\ (s # <<>> /\ s[1] \in AsciiUpper) => r = s
             /\ (s # <<>> /\ s[1] \in AsciiUpper) => upper_first_filter(fout.val, {}) = fout
    /\ (fname = "for_upper" /\ fout.tag # "None") =>
         /\ fout.tag = "Ok"
         /\ fout.out = UpperedLines(value.commits)

\* a loop over the messages "sz x" and "add" prints "SSx" and then "Add"
C6_Witness ==
    /\ fname = "for_upper"
    /\ Len(value.commits) = 2
    /\ value.commits[1].message = <<"sz", "x">>
    /\ value.commits[2].message = <<"a", "d", "d">>
    /\ fout.tag = "Ok"
    /\ fout.out = <<"S", "S", "x", "\n", "A", "d", "d", "\n">>

(***************************************************************************)
(* Properties of the Template (checked under Spec).                        *)
(***************************************************************************)
Finished(c) == pc[c] \in {"done", "panicked"}
Returned(c) == pc[c] = "done"
ErrorKinds == {"TemplateParseError", "TemplateRenderError", "TemplateError"}
CallsCommitGroups == tera.template.kind = "for_groups"

\* C3 as claimed: a template that invokes commit_groups without the groups
\* argument makes render and render_with_groups return an error result.
C3_MissingGroupsIsRenderFailure ==
    \A c \in Callers :
        (Finished(c) /\ CallsCommitGroups /\ tera.template.groups = "absent") =>
            /\ Returned(c)
            /\ result[c].tag \in ErrorKinds

\* a filter-level failure is reached by the call of caller c: the value has the
\* wrong type, the groups argument is missing, or a commit has no group
WrongValueType(c) == CallsCommitGroups /\ ~IsVecCommit(Get(ctx[c], tera.template.value))
MissingGroupsArg(c) == CallsCommitGroups /\ tera.template.groups = "absent"
GroupsPassed(c) ==
    IF tera.template.groups = "literal" THEN LiteralGroups
    ELSE IF Has(ctx[c], "commit_groups_filter") THEN Get(ctx[c], "commit_groups_filter").strs
    ELSE <<>>
CommitWithoutGroup(c) ==
    /\ CallsCommitGroups
    /\ tera.template.value = "commits"
    /\ tera.template.groups # "absent"
    /\ GroupsPassed(c) # <<>>
    /\ ~AllCarryGroup(release.commits)

\* C4 as claimed: every filter-level failure reached during a render call is
\* returned as a TemplateRenderError; none keeps the call from returning.
C4_FilterFailuresAreReturned ==
    \A c \in Callers :
        (Finished(c) /\ (WrongValueType(c) \/ MissingGroupsArg(c) \/ CommitWithoutGroup(c))) =>
            /\ Returned(c)
            /\ result[c].tag = "TemplateRenderError"
            /\ result[c].msg # ""

\* the result the translation rule gives for an engine error, by kind
Translated(e, kind) ==
    IF e.chain # <<>> THEN RErr(kind, Head(e.chain)) ELSE RGeneric(e)

\* C5: new, render and render_with_groups return the specific kind with the
\* display text of the cause when the engine's error has a cause, the generic
\* kind wrapping the engine's error when it has none, and the engine's output
\* unchanged when it succeeds.
C5_ErrorTranslationIsUniform ==
    /\ newResult.tag # "None" =>
         LET p == add_raw_template(NoTera, attempt)
         IN  IF p.err = <<>> THEN newResult.tag = "Ok" /\ tera.template = attempt
             ELSE newResult = Translated(p.err[1], "TemplateParseError")
    /\ \A c \in Callers : Returned(c) =>
         \A iter \in RelIterOrders :
            LET er == tera_render(tera, ctx[c], iter)
            IN  /\ er.tag = "Ok" => result[c] = ROk(er.out)
                /\ er.tag = "Err" => result[c] = Translated(er.err, "TemplateRenderError")

\* both operations got the engine's error for a filter value of the wrong type
\* and returned the display text of its cause as a TemplateRenderError
C5_Witness ==
    \E c, d \in Callers :
        /\ newResult.tag = "Ok"
        /\ Returned(c) /\ call[c].op = "render" /\ result[c].tag = "TemplateRenderError"
        /\ Returned(d) /\ call[d].op = "render_with_groups"
        /\ result[d].tag = "TemplateRenderError"
        /\ result[d].msg = "Filter commit_groups was called on an incorrect value"

\* C7: the context of render_with_groups is the context of render with the one
\* key commit_groups_filter added, bound to the groups in the caller's order,
\* and on a template that does not reference the key both operations end the
\* same way: the same output, the same error.
C7_RenderWithGroupsExtendsRender ==
    \A c, d \in Callers :
        (call[c].op = "render" /\ call[d].op = "render_with_groups") =>
            /\ (pc[c] # "idle" /\ pc[d] # "idle") =>
                 /\ ~Has(ctx[c], "commit_groups_filter")
                 /\ ctx[d] = ctx[c] \cup
                       {[k |-> "commit_groups_filter", v |-> VStrings(call[d].groups)]}
            /\ (Finished(c) /\ Finished(d) /\ tera.template.groups # "context") =>
                 /\ pc[c] = pc[d]
                 /\ result[c] = result[d]

\* both operations printed the two groups of a release through the literal list
C7_Witness ==
    \E c, d \in Callers :
        /\ call[c].op = "render" /\ call[d].op = "render_with_groups"
        /\ call[d].groups = <<"feat">>
        /\ Returned(c) /\ Returned(d)
        /\ tera.template = Tpl("for_groups", "commits", "literal")
        /\ result[d] = ROk(<<"#", "fix", "\n", "-", "B", "\n", "#", "feat", "\n", "-", "A", "\n">>)

\* C8: a render call changes neither the Template (compiled template and the
\* two filters) nor the Release, also when it fails; calls with the same
\* release and groups end the same way whenever they are made, and after a
\* call that returned an error the Template can be called again.
C8_RenderLeavesTemplateUnchanged ==
    /\ tera = built
    /\ release = given
    /\ newResult.tag = "Ok" => tera.filters = {"upper_first", "commit_groups"}
    /\ \A c, d \in Callers :
         (Finished(c) /\ Finished(d) /\ call[c] = call[d]) =>
             pc[c] = pc[d] /\ result[c] = result[d]
    /\ \A c \in Callers :
         (Returned(c) /\ result[c].tag \in ErrorKinds) => CanCall(c)

\* render failed on the template that reads commit_groups_filter, and
\* render_with_groups with the groups given succeeded on the same Template
C8_Witness ==
    \E c, d \in Callers :
        /\ Returned(c) /\ call[c].op = "render" /\ result[c].tag = "TemplateRenderError"
        /\ Returned(d) /\ call[d].op = "render_with_groups" /\ result[d].tag = "Ok"
        /\ result[d].out # <<>>
        /\ tera = built

\* the grouping of commits by the list groups, printed by the for_groups template
RECURSIVE ListedLines(_, _, _)
ListedLines(commits, groups, seen) ==
    IF groups = <<>> THEN <<>>
    ELSE LET g == Head(groups)
             bucket == SelectSeq(commits, LAMBDA c : c.group = g)
         IN  (IF g \in seen \/ bucket = <<>> THEN <<>>
              ELSE <<"#", g, "\n">> \o CommitLines(bucket))
             \o ListedLines(commits, Tail(groups), seen \cup {g})

\* C9 as claimed: without a literal groups argument the filter takes the list
\* that render_with_groups put into the context under commit_groups_filter.
C9_ContextValueIsTheDefault ==
    \A c \in Callers :
        (/\ Finished(c)
         /\ call[c].op = "render_with_groups"
         /\ tera.template = Tpl("for_groups", "commits", "absent")
         /\ AllCarryGroup(release.commits)) =>
            result[c] = ROk(ListedLines(release.commits, call[c].groups, {}))

\* C9 as amended: the filter takes its list from its groups argument only. A
\* template passes the injected list as groups=commit_groups_filter, and what
\* render_with_groups then prints is the grouping by the caller's list; with a
\* literal argument what is printed is the grouping by the literal, whatever
\* the context holds; with no groups argument no grouping is ever printed.
C9_GroupsComeFromTheArgument ==
    \A c \in Callers : (Finished(c) /\ CallsCommitGroups /\ tera.template.value = "commits") =>
        /\ (tera.template.groups = "context" /\ call[c].op = "render_with_groups") =>
             /\ AllCarryGroup(release.commits) => result[c].tag = "Ok"
             /\ result[c].tag = "Ok" =>
                  result[c].out = ListedLines(release.commits, call[c].groups, {})
        /\ tera.template.groups = "literal" =>
             /\ AllCarryGroup(release.commits) => result[c].tag = "Ok"
             /\ result[c].tag = "Ok" =>
                  result[c].out = ListedLines(release.commits, LiteralGroups, {})
        /\ tera.template.groups = "absent" => result[c].tag # "Ok"

\* render_with_groups([feat, fix]) on groups=commit_groups_filter prints feat first
C9_Witness ==
    \E c \in Callers :
        /\ Returned(c)
        /\ call[c] = [op |-> "render_with_groups", groups |-> <<"feat", "fix">>]
        /\ tera.template = Tpl("for_groups", "commits", "context")
        /\ result[c] = ROk(<<"#", "feat", "\n", "-", "B", "\n", "#", "fix", "\n", "-", "A", "\n">>)

====
